---- MODULE Spec2Model ----
(***************************************************************************)
(* Model of the motorcycle repository (in-memory CRUD over a slice with a  *)
(* binary search by ID), of the insert use case (InsertMotorcycleInteractor)*)
(* and of the insert view model.                                           *)
(***************************************************************************)
EXTENDS Integers, Sequences, FiniteSets, TLC

VARIABLES Motorcycles, nextID, assigned, last, handled, vm

vars == <<Motorcycles, nextID, assigned, last, handled, vm>>

----------------------------------------------------------------------------
(* Bounds *)

\* Insert is not called any more once the global counter reached this value.
MaxNextID == 3

\* Largest id handed to NewInsertMotorcycleViewModel.
MaxViewID == 6

----------------------------------------------------------------------------
(* Constants of the program *)

kPrimaryKeyID_DoesNotExist == -1

\* constants.InvalidEntityID and constants.MinEntityID
InvalidEntityID == 0

MinEntityID == 1

\* The zero time.Time of an entity that was never stored or never updated.
ZeroTime == 0

\* time.Now().UTC(): an instant after the zero time.
Now == 1

Times == {Now}

ErrNil == "nil"

ErrIDExists == "cannot insert this motorcycle because the ID already exists"

ErrUpdateNotExist == "cannot update a motorcycle that does not exist"

ErrDeleteNotExist == "cannot delete a motorcycle that does not exist"

ErrNotFound == "motorcycle was not found"

ErrValidation == "validation failed"

ErrFindNotFound == "motorcycle was not found, so it cannot be updated"

----------------------------------------------------------------------------
(* The entity *)

\* entities.Motorcycle.Validate: the required fields are present.
MotorcycleValidate(m) ==
  IF m.Make # "" /\ m.Model # "" /\ m.Year # 0 /\ m.Vin # ""
  THEN ErrNil ELSE ErrValidation

\* entities.NewMotorcycle: a validated entity without ID and timestamps,
\* <<>> and the error when validation fails.
NewMotorcycle(make, model, year, vin) ==
  LET m == [ID |-> 0, Make |-> make, Model |-> model, Year |-> year,
            Vin |-> vin, CreatedUtc |-> ZeroTime, ModifiedUtc |-> ZeroTime]
      e == MotorcycleValidate(m)
  IN IF e # ErrNil THEN [moto |-> <<>>, err |-> e]
     ELSE [moto |-> <<m>>, err |-> ErrNil]

\* The entities a caller of the repository passes in.
ArgIDs == 0..MaxNextID

Entities ==
  [ID : ArgIDs, Make : {"", "Honda", "Harley"}, Model : {"Shadow"},
   Year : {2006}, Vin : {"V1"}, CreatedUtc : {ZeroTime},
   ModifiedUtc : {ZeroTime}]

----------------------------------------------------------------------------
(* The repository *)

\* sort.Search(n, f) with f(h) == s[h].ID >= id, on 0-based indices:
\* the loop  for i < j { h := (i+j)/2; if !f(h) { i = h+1 } else { j = h } }
RECURSIVE Search_Strict(_, _, _, _)
\* Mutant: the predicate of the search is  s[h].ID > id.
Search_Strict(s, id, i, j) ==
  IF i < j
  THEN LET h == (i + j) \div 2
       IN IF ~(s[h + 1].ID > id) THEN Search_Strict(s, id, h + 1, j)
          ELSE Search_Strict(s, id, i, h)
  ELSE i

RECURSIVE Search(_, _, _, _)
Search(s, id, i, j) ==
  IF i < j
  THEN LET h == (i + j) \div 2
       IN IF ~(s[h + 1].ID >= id) THEN Search(s, id, h + 1, j)
          ELSE Search(s, id, i, h)
  ELSE i

findByID(s, id) ==
  LET i == Search(s, id, 0, Len(s))
  IN IF i < Len(s) /\ s[i + 1].ID = id
     THEN [i |-> i, err |-> ErrNil]
     ELSE [i |-> -1, err |-> ErrNotFound]

\* Mutant: the counter is returned without being advanced.
getNextID_Reuse(n) == n

getNextID(n) == n + 1

\* Mutant: the records after the index are dropped as well.
removeIndex_Truncate(s, index) == SubSeq(s, 1, index)

\* append(s[:index], s[index+1:]...)
removeIndex(s, index) ==
  SubSeq(s, 1, index) \o SubSeq(s, index + 2, Len(s))

\* Mutant: the check for an existing ID is missing.
InsertResult_NoDuplicateCheck(s, n, m, t) ==
  LET id == getNextID(n)
      m2 == [m EXCEPT !.ID = id, !.CreatedUtc = t]
      e  == MotorcycleValidate(m2)
  IN IF e # ErrNil
     THEN [Motorcycles |-> s, nextID |-> id, ret |-> <<>>,
           err |-> e, moto |-> m2]
     ELSE [Motorcycles |-> Append(s, m2), nextID |-> id,
           ret |-> <<m2>>, err |-> ErrNil, moto |-> m2]

\* Mutant: the entity is stored as the caller passed it, before the ID and
\* the creation time are set.
InsertResult_StoresArgument(s, n, m, t) ==
  LET f == findByID(s, m.ID)
  IN IF f.i # kPrimaryKeyID_DoesNotExist
     THEN [Motorcycles |-> s, nextID |-> n, ret |-> <<>>,
           err |-> ErrIDExists, moto |-> m]
     ELSE LET id == getNextID(n)
              m2 == [m EXCEPT !.ID = id, !.CreatedUtc = t]
              e  == MotorcycleValidate(m2)
          IN IF e # ErrNil
             THEN [Motorcycles |-> s, nextID |-> id, ret |-> <<>>,
                   err |-> e, moto |-> m2]
             ELSE [Motorcycles |-> Append(s, m), nextID |-> id,
                   ret |-> <<m2>>, err |-> ErrNil, moto |-> m2]

\* Mutant: the new record is put in front of the collection.
InsertResult_Prepend(s, n, m, t) ==
  LET f == findByID(s, m.ID)
  IN IF f.i # kPrimaryKeyID_DoesNotExist
     THEN [Motorcycles |-> s, nextID |-> n, ret |-> <<>>,
           err |-> ErrIDExists, moto |-> m]
     ELSE LET id == getNextID(n)
              m2 == [m EXCEPT !.ID = id, !.CreatedUtc = t]
              e  == MotorcycleValidate(m2)
          IN IF e # ErrNil
             THEN [Motorcycles |-> s, nextID |-> id, ret |-> <<>>,
                   err |-> e, moto |-> m2]
             ELSE [Motorcycles |-> <<m2>> \o s, nextID |-> id,
                   ret |-> <<m2>>, err |-> ErrNil, moto |-> m2]

\* Result of repo.Insert(m) at time t: the new collection and counter, the
\* returned entity (<<>> is nil), the error and the caller's entity after
\* the call.
InsertResult(s, n, m, t) ==
  LET f == findByID(s, m.ID)
  IN IF f.i # kPrimaryKeyID_DoesNotExist
     THEN [Motorcycles |-> s, nextID |-> n, ret |-> <<>>,
           err |-> ErrIDExists, moto |-> m]
     ELSE LET id == getNextID(n)
              m2 == [m EXCEPT !.ID = id, !.CreatedUtc = t]
              e  == MotorcycleValidate(m2)
          IN IF e # ErrNil
             THEN [Motorcycles |-> s, nextID |-> id, ret |-> <<>>,
                   err |-> e, moto |-> m2]
             ELSE [Motorcycles |-> Append(s, m2), nextID |-> id,
                   ret |-> <<m2>>, err |-> ErrNil, moto |-> m2]

\* Mutant: the updated entity is appended instead of replacing the record.
UpdateResult_Append(s, m, t) ==
  LET f == findByID(s, m.ID)
  IN IF f.i = kPrimaryKeyID_DoesNotExist
     THEN [Motorcycles |-> s, ret |-> <<>>, err |-> ErrUpdateNotExist,
           moto |-> m]
     ELSE LET m2 == [m EXCEPT !.ModifiedUtc = t]
              e  == MotorcycleValidate(m2)
          IN IF e # ErrNil
             THEN [Motorcycles |-> s, ret |-> <<>>, err |-> e, moto |-> m2]
             ELSE [Motorcycles |-> Append(s, m2),
                   ret |-> <<m2>>, err |-> ErrNil, moto |-> m2]

UpdateResult(s, m, t) ==
  LET f == findByID(s, m.ID)
  IN IF f.i = kPrimaryKeyID_DoesNotExist
     THEN [Motorcycles |-> s, ret |-> <<>>, err |-> ErrUpdateNotExist,
           moto |-> m]
     ELSE LET m2 == [m EXCEPT !.ModifiedUtc = t]
              e  == MotorcycleValidate(m2)
          IN IF e # ErrNil
             THEN [Motorcycles |-> s, ret |-> <<>>, err |-> e, moto |-> m2]
             ELSE [Motorcycles |-> [s EXCEPT ![f.i + 1] = m2],
                   ret |-> <<m2>>, err |-> ErrNil, moto |-> m2]

DeleteResult(s, m) ==
  LET f == findByID(s, m.ID)
  IN IF f.i = kPrimaryKeyID_DoesNotExist
     THEN [Motorcycles |-> s, err |-> ErrDeleteNotExist]
     ELSE [Motorcycles |-> removeIndex(s, f.i), err |-> ErrNil]

FindByIDResult(s, id) ==
  LET f == findByID(s, id)
  IN IF f.err # ErrNil THEN [ret |-> <<>>, err |-> f.err]
     ELSE [ret |-> <<s[f.i + 1]>>, err |-> ErrNil]

\* Go compares strings byte by byte: "" < "Harley" < "Honda" < "Shadow".
StringRank(str) ==
  CASE str = "" -> 0
    [] str = "Harley" -> 1
    [] str = "Honda" -> 2
    [] str = "Shadow" -> 3

StringGE(a, b) == StringRank(a) >= StringRank(b)

\* sort.Search(n, f) with the predicate of Find:
\* s[h].Make >= m.Make && s[h].Model >= m.Model && s[h].Year >= m.Year
RECURSIVE SearchFind(_, _, _, _)
SearchFind(s, m, i, j) ==
  IF i < j
  THEN LET h == (i + j) \div 2
       IN IF ~(/\ StringGE(s[h + 1].Make, m.Make)
               /\ StringGE(s[h + 1].Model, m.Model)
               /\ s[h + 1].Year >= m.Year)
          THEN SearchFind(s, m, h + 1, j)
          ELSE SearchFind(s, m, i, h)
  ELSE i

FindResult(s, m) ==
  LET i == SearchFind(s, m, 0, Len(s))
  IN IF i < Len(s) /\ s[i + 1].ID = m.ID
     THEN [ret |-> <<s[i + 1]>>, err |-> ErrNil]
     ELSE [ret |-> <<>>, err |-> ErrFindNotFound]

\* Mutant: the commit fails.
Save_Fails == "save failed"

\* repo.Save: the unit of work has nothing to commit.
Save == ErrNil

----------------------------------------------------------------------------
(* The insert use case *)

ErrNotAuthenticated ==
  "insert operation failed due to not being authenticated"

ErrNotAuthorized ==
  "insert operation failed due to not having the required user authorization roles"

ErrVinExists ==
  "insert operation failed due to a motorcycle with the same VIN already existing in the repository"

\* The order in which Handle reaches its collaborators.
CallOrder ==
  <<"IsAuthenticated", "IsAuthorized", "FindByVin", "NewMotorcycle",
    "Insert", "Save">>

\* The request messages a caller passes to Handle.
Requests ==
  [Make : {"", "Honda", "Harley"}, Model : {"Shadow"}, Year : {2006},
   Vin : {"", "V1", "V2"}]

\* repo.FindByVin: the first record with that VIN, <<>> when there is none.
FindByVin(s, vin) ==
  LET hits == {i \in 1..Len(s) : s[i].Vin = vin}
  IN IF hits = {} THEN [ret |-> <<>>, err |-> ErrNotFound]
     ELSE [ret |-> <<s[CHOOSE i \in hits : \A k \in hits : i <= k]>>,
           err |-> ErrNil]

\* responsemessages.NewInsertMotorcycleResponseMessage(id, err): the
\* response carries the ID and the error of the use case.
NewInsertMotorcycleResponseMessage(id, err) ==
  [resp |-> <<[ID |-> id, Error |-> err]>>, err |-> ErrNil]

\* What Handle returns and leaves behind: the repository, the response
\* built from id and err, and the first ncalls calls of CallOrder.
HandleOut(ms, nid, id, err, ncalls) ==
  [Motorcycles |-> ms, nextID |-> nid,
   out |-> NewInsertMotorcycleResponseMessage(id, err),
   calls |-> SubSeq(CallOrder, 1, ncalls)]

\* Handle after its three gates: create the entity, insert it, save.
HandleInsert(s, n, req, t) ==
  LET c == NewMotorcycle(req.Make, req.Model, req.Year, req.Vin)
  IN IF c.err # ErrNil
     THEN HandleOut(s, n, InvalidEntityID, c.err, 4)
     ELSE LET r == InsertResult(s, n, c.moto[1], t)
          IN IF r.err # ErrNil
             THEN HandleOut(r.Motorcycles, r.nextID, InvalidEntityID,
                            r.err, 5)
             ELSE IF Save # ErrNil
             THEN HandleOut(r.Motorcycles, r.nextID, InvalidEntityID,
                            Save, 6)
             ELSE HandleOut(r.Motorcycles, r.nextID, r.ret[1].ID, ErrNil, 6)

\* Mutant: the authorization of the caller is not checked.
HandleResult_NoAuthorization(s, n, isAuthenticated, isAuthorized, req, t) ==
  IF ~isAuthenticated
  THEN HandleOut(s, n, InvalidEntityID, ErrNotAuthenticated, 1)
  ELSE IF FindByVin(s, req.Vin).ret # <<>>
  THEN HandleOut(s, n, InvalidEntityID, ErrVinExists, 3)
  ELSE HandleInsert(s, n, req, t)

\* Mutant: the repository is not searched for the VIN.
HandleResult_NoVinCheck(s, n, isAuthenticated, isAuthorized, req, t) ==
  IF ~isAuthenticated
  THEN HandleOut(s, n, InvalidEntityID, ErrNotAuthenticated, 1)
  ELSE IF ~isAuthorized
  THEN HandleOut(s, n, InvalidEntityID, ErrNotAuthorized, 2)
  ELSE HandleInsert(s, n, req, t)

\* Outcome of Handle(req) for the answers of the AuthService and the time t.
HandleResult(s, n, isAuthenticated, isAuthorized, req, t) ==
  IF ~isAuthenticated
  THEN HandleOut(s, n, InvalidEntityID, ErrNotAuthenticated, 1)
  ELSE IF ~isAuthorized
  THEN HandleOut(s, n, InvalidEntityID, ErrNotAuthorized, 2)
  ELSE IF FindByVin(s, req.Vin).ret # <<>>
  THEN HandleOut(s, n, InvalidEntityID, ErrVinExists, 3)
  ELSE HandleInsert(s, n, req, t)

----------------------------------------------------------------------------
(* The insert view model *)

ErrPanic == "panic: nil pointer dereference"

\* InsertMotorcycleViewModel.Validate: ID is required and at least
\* MinEntityID, Message is required.
ViewModelValidate(v) ==
  IF v.ID # 0 /\ v.ID >= MinEntityID /\ v.Message # ""
  THEN ErrNil ELSE ErrValidation

\* errors.Wrap(e, message): nil for a nil e, an error otherwise.
Wrap(e, message) == IF e = ErrNil THEN ErrNil ELSE message \o ": " \o e

\* NewInsertMotorcycleViewModel(id, message, err): on a validation failure
\* the code evaluates viewModel.Error.Error(), which dereferences err.
NewInsertMotorcycleViewModel(id, message, err) ==
  LET viewModel == [ID |-> id, Message |-> message, Error |-> err]
      msgErr == ViewModelValidate(viewModel)
  IN IF msgErr # ErrNil
     THEN IF err = ErrNil
          THEN [outcome |-> "panic", obj |-> <<>>, err |-> ErrPanic]
          ELSE [outcome |-> "returned", obj |-> <<>>,
                err |-> Wrap(msgErr, err)]
     ELSE [outcome |-> "returned", obj |-> <<viewModel>>, err |-> ErrNil]

ViewIDs == (0 - 2)..MaxViewID

ViewMessages == {"", "Successfully inserted a new motorcycle.", "failed"}

ViewErrors == {ErrNil, ErrValidation, ErrVinExists}

----------------------------------------------------------------------------
(* State *)

NoCall ==
  [op |-> "none", arg |-> <<>>, id |-> 0, ret |-> <<>>, err |-> ErrNil,
   pre |-> <<>>, preNextID |-> 0]

NoRequest == [Make |-> "", Model |-> "", Year |-> 0, Vin |-> ""]

NoHandle ==
  [done |-> FALSE, isAuthenticated |-> FALSE, isAuthorized |-> FALSE,
   req |-> NoRequest, resp |-> <<>>, err |-> ErrNil, calls |-> <<>>,
   pre |-> <<>>, preNextID |-> 0]

NoView ==
  [done |-> FALSE, id |-> 0, message |-> "", err |-> ErrNil,
   outcome |-> "none", obj |-> <<>>, retErr |-> ErrNil]

Init ==
  /\ Motorcycles = <<>>
  /\ nextID = 0
  /\ assigned = <<>>
  /\ last = NoCall
  /\ handled = NoHandle
  /\ vm = NoView

NewMotorcycleRepository ==
  /\ Motorcycles' = <<>>
  /\ last' = [NoCall EXCEPT !.op = "New", !.pre = Motorcycles,
                            !.preNextID = nextID]
  /\ UNCHANGED <<nextID, assigned, handled, vm>>

Insert ==
  /\ nextID < MaxNextID
  /\ \E m \in Entities, t \in Times :
       LET r == InsertResult(Motorcycles, nextID, m, t)
       IN /\ Motorcycles' = r.Motorcycles
          /\ nextID' = r.nextID
          /\ assigned' = IF r.err = ErrNil THEN Append(assigned, r.ret[1].ID)
                         ELSE assigned
          /\ last' = [op |-> "Insert", arg |-> <<m>>, id |-> m.ID,
                      ret |-> r.ret, err |-> r.err, pre |-> Motorcycles,
                      preNextID |-> nextID]
  /\ UNCHANGED <<handled, vm>>

Update ==
  /\ \E m \in Entities, t \in Times :
       LET r == UpdateResult(Motorcycles, m, t)
       IN /\ Motorcycles' = r.Motorcycles
          /\ last' = [op |-> "Update", arg |-> <<m>>, id |-> m.ID,
                      ret |-> r.ret, err |-> r.err, pre |-> Motorcycles,
                      preNextID |-> nextID]
  /\ UNCHANGED <<nextID, assigned, handled, vm>>

Delete ==
  /\ \E m \in Entities :
       LET r == DeleteResult(Motorcycles, m)
       IN /\ Motorcycles' = r.Motorcycles
          /\ last' = [op |-> "Delete", arg |-> <<m>>, id |-> m.ID,
                      ret |-> <<>>, err |-> r.err, pre |-> Motorcycles,
                      preNextID |-> nextID]
  /\ UNCHANGED <<nextID, assigned, handled, vm>>

FindByID ==
  /\ \E id \in ArgIDs :
       LET r == FindByIDResult(Motorcycles, id)
       IN last' = [op |-> "FindByID", arg |-> <<>>, id |-> id,
                   ret |-> r.ret, err |-> r.err, pre |-> Motorcycles,
                   preNextID |-> nextID]
  /\ UNCHANGED <<Motorcycles, nextID, assigned, handled, vm>>

Find ==
  /\ \E m \in Entities :
       LET r == FindResult(Motorcycles, m)
       IN last' = [op |-> "Find", arg |-> <<m>>, id |-> m.ID,
                   ret |-> r.ret, err |-> r.err, pre |-> Motorcycles,
                   preNextID |-> nextID]
  /\ UNCHANGED <<Motorcycles, nextID, assigned, handled, vm>>

\* InsertMotorcycleInteractor.Handle
Handle ==
  /\ nextID < MaxNextID
  /\ \E a \in BOOLEAN, z \in BOOLEAN, req \in Requests, t \in Times :
       LET r == HandleResult(Motorcycles, nextID, a, z, req, t)
       IN /\ Motorcycles' = r.Motorcycles
          /\ nextID' = r.nextID
          /\ assigned' = IF Len(r.Motorcycles) > Len(Motorcycles)
                         THEN Append(assigned,
                                     r.Motorcycles[Len(r.Motorcycles)].ID)
                         ELSE assigned
          /\ handled' = [done |-> TRUE, isAuthenticated |-> a,
                         isAuthorized |-> z, req |-> req,
                         resp |-> r.out.resp, err |-> r.out.err,
                         calls |-> r.calls, pre |-> Motorcycles,
                         preNextID |-> nextID]
  /\ UNCHANGED <<last, vm>>

\* A call of NewInsertMotorcycleViewModel with the arguments drawn in InitView.
NewViewModel ==
  /\ ~vm.done
  /\ LET r == NewInsertMotorcycleViewModel(vm.id, vm.message, vm.err)
     IN vm' = [vm EXCEPT !.done = TRUE, !.outcome = r.outcome,
                         !.obj = r.obj, !.retErr = r.err]
  /\ UNCHANGED <<Motorcycles, nextID, assigned, last, handled>>

Next ==
  NewMotorcycleRepository \/ Insert \/ Update \/ Delete \/ FindByID \/ Find

Spec == Init /\ [][Next]_vars

\* The use case alone, on an initially empty repository.
NextHandle == Handle

SpecHandle == Init /\ [][NextHandle]_vars

\* The view model constructor on every combination of arguments.
InitView ==
  /\ Motorcycles = <<>>
  /\ nextID = 0
  /\ assigned = <<>>
  /\ last = NoCall
  /\ handled = NoHandle
  /\ \E id \in ViewIDs, message \in ViewMessages, err \in ViewErrors :
       vm = [NoView EXCEPT !.id = id, !.message = message, !.err = err]

NextView == NewViewModel

SpecView == InitView /\ [][NextView]_vars

----------------------------------------------------------------------------
(* Properties *)

HasID(s, id) == \E i \in 1..Len(s) : s[i].ID = id

HasVin(s, vin) == \E i \in 1..Len(s) : s[i].Vin = vin

\* C1: the IDs assigned by successful Inserts are strictly increasing in the
\* order of the calls (so none is reused, also after a Delete), every record
\* carries an ID the repository assigned, and no two records of the
\* collection have the same ID.
C1_IDsIncreasingAndUnique ==
  /\ \A i, j \in 1..Len(assigned) : i < j => assigned[i] < assigned[j]
  /\ \A i, j \in 1..Len(Motorcycles) :
       i # j => Motorcycles[i].ID # Motorcycles[j].ID
  /\ \A i \in 1..Len(Motorcycles) :
       \E k \in 1..Len(assigned) : assigned[k] = Motorcycles[i].ID
  /\ (last.op = "Insert" /\ last.err = ErrNil) =>
       /\ last.ret[1].ID = assigned[Len(assigned)]
       /\ \A i \in 1..Len(last.pre) : last.pre[i].ID < last.ret[1].ID

\* An Insert succeeded after an earlier record was deleted.
C1_Witness ==
  /\ last.op = "Insert" /\ last.err = ErrNil
  /\ Len(assigned) = 3 /\ Len(Motorcycles) = 2

\* C2: an Insert of an entity whose ID is in the collection returns an error
\* and no entity and leaves the collection and the next ID unchanged.
C2_InsertExistingIDRejected ==
  (last.op = "Insert" /\ HasID(last.pre, last.id)) =>
    /\ last.err # ErrNil
    /\ last.ret = <<>>
    /\ Motorcycles = last.pre
    /\ nextID = last.preNextID

\* A rejected Insert on a collection of two records.
C2_Witness ==
  /\ last.op = "Insert" /\ HasID(last.pre, last.id)
  /\ Len(last.pre) = 2 /\ last.err = ErrIDExists

\* The record r is the entity m with a modification timestamp set.
UpdatedRecord(m, r) ==
  /\ r = [m EXCEPT !.ModifiedUtc = r.ModifiedUtc]
  /\ r.ModifiedUtc # ZeroTime

UpdateRejected ==
  /\ last.err # ErrNil
  /\ last.ret = <<>>
  /\ Motorcycles = last.pre

UpdateReplaced ==
  /\ Len(Motorcycles) = Len(last.pre)
  /\ \A i \in 1..Len(last.pre) :
       IF last.pre[i].ID = last.id
       THEN UpdatedRecord(last.arg[1], Motorcycles[i])
       ELSE Motorcycles[i] = last.pre[i]

\* C3 as stated: an Update of an ID that is not in the collection is
\* rejected, and an Update of an ID that is in it replaces the record in
\* place.
C3_UpdateAsStated ==
  last.op = "Update" =>
    IF ~HasID(last.pre, last.id) THEN UpdateRejected ELSE UpdateReplaced

\* C3, amended: an Update of an ID that is not in the collection is rejected;
\* an Update of an ID that is in it replaces the record in place when the
\* entity passes validation, and is rejected, with the collection unchanged,
\* when the entity fails validation.
C3_UpdateAmended ==
  last.op = "Update" =>
    IF ~HasID(last.pre, last.id) THEN UpdateRejected
    ELSE IF MotorcycleValidate(last.arg[1]) # ErrNil THEN UpdateRejected
    ELSE UpdateReplaced /\ last.err = ErrNil

\* The middle record of three was replaced by an entity of another make.
C3_Witness ==
  /\ last.op = "Update" /\ last.err = ErrNil
  /\ Len(last.pre) = 3 /\ last.pre[2].ID = last.id
  /\ last.pre[2].Make # Motorcycles[2].Make

\* C4: a Delete of an ID that is not in the collection returns an error and
\* changes nothing; a Delete of an ID that is in it removes exactly the one
\* record with that ID and keeps the others unmodified and in order.
C4_DeleteRemovesExactlyOne ==
  last.op = "Delete" =>
    IF ~HasID(last.pre, last.id)
    THEN last.err # ErrNil /\ Motorcycles = last.pre
    ELSE /\ last.err = ErrNil
         /\ Len(Motorcycles) = Len(last.pre) - 1
         /\ Cardinality({i \in 1..Len(last.pre) :
                           last.pre[i].ID = last.id}) = 1
         /\ \E k \in 1..Len(last.pre) :
              /\ last.pre[k].ID = last.id
              /\ \A i \in 1..Len(Motorcycles) :
                   Motorcycles[i] = IF i < k THEN last.pre[i]
                                    ELSE last.pre[i + 1]

\* The first of three records was deleted.
C4_Witness ==
  /\ last.op = "Delete" /\ last.err = ErrNil
  /\ Len(last.pre) = 3 /\ last.pre[1].ID = last.id

\* C5: for every id, FindByID returns the stored record with that ID and no
\* error when the collection has such a record, and no record and an error
\* when it has none.
C5_FindByIDFindsExactly ==
  \A id \in ArgIDs \cup {kPrimaryKeyID_DoesNotExist} :
    LET r == FindByIDResult(Motorcycles, id)
    IN IF HasID(Motorcycles, id)
       THEN /\ r.err = ErrNil
            /\ Len(r.ret) = 1
            /\ r.ret[1].ID = id
            /\ \E i \in 1..Len(Motorcycles) : Motorcycles[i] = r.ret[1]
       ELSE r.ret = <<>> /\ r.err # ErrNil

\* The last record was found after the record before it had been deleted.
C5_Witness ==
  /\ last.op = "FindByID" /\ last.err = ErrNil
  /\ Len(Motorcycles) = 2 /\ Len(assigned) = 3
  /\ last.ret[1] = Motorcycles[2]
  /\ Motorcycles[1].ID = 1 /\ Motorcycles[2].ID = 3

HandleFailed(err) ==
  /\ handled.err = ErrNil
  /\ Len(handled.resp) = 1
  /\ handled.resp[1].ID = InvalidEntityID
  /\ handled.resp[1].Error = err

HandlePrecondition ==
  /\ handled.done /\ handled.isAuthenticated /\ handled.isAuthorized
  /\ ~HasVin(handled.pre, handled.req.Vin)
  /\ NewMotorcycle(handled.req.Make, handled.req.Model, handled.req.Year,
                   handled.req.Vin).err = ErrNil

ViewModelInvalid ==
  vm.id = 0 \/ vm.id < MinEntityID \/ vm.message = ""

\* C9: NewInsertMotorcycleViewModel never panics; when validation fails (id
\* missing or below the minimum, or message empty) it returns no object and
\* a non-nil error, for every err including nil, and otherwise the object
\* and a nil error.
C9_ViewModelSelfValidates ==
  vm.done =>
    /\ vm.outcome = "returned"
    /\ IF ViewModelInvalid
       THEN vm.obj = <<>> /\ vm.retErr # ErrNil
       ELSE /\ vm.obj = <<[ID |-> vm.id, Message |-> vm.message,
                           Error |-> vm.err]>>
            /\ vm.retErr = ErrNil

C11_FindFindsRecord ==
  last.op = "Find" =>
    IF ~HasID(Motorcycles, last.id)
    THEN last.ret = <<>> /\ last.err # ErrNil
    ELSE \A i \in 1..Len(Motorcycles) :
           (/\ Motorcycles[i].ID = last.id
            /\ Motorcycles[i].Make = last.arg[1].Make
            /\ Motorcycles[i].Model = last.arg[1].Model
            /\ Motorcycles[i].Year = last.arg[1].Year) =>
             last.ret = <<Motorcycles[i]>> /\ last.err = ErrNil

\* C12: the records of the collection are in strictly ascending ID order; a
\* successful Insert appends a record whose ID is larger than all others, a
\* successful Update and a Delete keep the IDs of the remaining records in
\* place and in order.
C12_AscendingIDOrder ==
  /\ \A i, j \in 1..Len(Motorcycles) :
       i < j => Motorcycles[i].ID < Motorcycles[j].ID
  /\ (last.op = "Insert" /\ last.err = ErrNil) =>
       /\ Motorcycles = Append(last.pre, last.ret[1])
       /\ \A i \in 1..Len(last.pre) : last.pre[i].ID < last.ret[1].ID
  /\ last.op = "Update" =>
       /\ Len(Motorcycles) = Len(last.pre)
       /\ \A i \in 1..Len(last.pre) : Motorcycles[i].ID = last.pre[i].ID

\* A record was appended behind the one that was left after a Delete of the
\* first record.
C12_Witness ==
  /\ last.op = "Insert" /\ last.err = ErrNil
  /\ Len(Motorcycles) = 2
  /\ Motorcycles[1].ID = 2 /\ Motorcycles[2].ID = 3

====
